---- MODULE Spec2Model ----
(***************************************************************************)
(* A model of send-sms / freemobile-api: the text pipeline                 *)
(*   MessageChunker::chunk -> MessageChunker::format_chunks ->             *)
(*   FreeMobileClient::send_sanitized                                      *)
(*                                                                         *)
(* A Rust String is modelled as a sequence of chars (Unicode scalar        *)
(* values).  Each char of the alphabet below carries the three properties  *)
(* the code reads: char::is_whitespace, char::len_utf8 and its grapheme    *)
(* break class (unicode-segmentation, extended grapheme clusters).         *)
(* The code indexes strings by byte offset; the model indexes them by      *)
(* 1-based char index and computes byte offsets with ByteLen where the     *)
(* code compares or divides them.  Every offset the code computes is a     *)
(* sum of whole chars, so the two indexings determine each other.          *)
(*                                                                         *)
(* The state holds every text run-length encoded (Runs): a text of 98 110  *)
(* equal chars is one run.  The operators that model the code work on the  *)
(* char sequence (Text); the two forms determine each other.               *)
(***************************************************************************)
EXTENDS Integers, Sequences, FiniteSets, TLC

(***************************************************************************)
(* Program constants.                                                      *)
(***************************************************************************)
MAX_MESSAGE_LENGTH == 999
PREFIX_RESERVE_LENGTH == 8
MIN_BOUNDARY_RATIO == 3
CHUNK_DELAY_MS == 500
\* MAX_MESSAGE_LENGTH of the cli crate
CLI_MAX_MESSAGE_LENGTH == 5000

(***************************************************************************)
(* Texts as char sequences and as sequences of runs [c: char, n: count].   *)
(***************************************************************************)
\* n times the char c, as a sequence
Rep(c, n) == [i \in 1..n |-> c] \o <<>>

\* the char sequence that the runs rs encode
RECURSIVE Text(_)
Text(rs) ==
    IF rs = <<>> THEN <<>>
    ELSE Text(SubSeq(rs, 1, Len(rs) - 1)) \o Rep(rs[Len(rs)].c, rs[Len(rs)].n)

\* the index after the run of equal chars that starts at char b of t
RunEnd(t, b) ==
    IF \A i \in b..Len(t) : t[i] = t[b] THEN Len(t) + 1
    ELSE CHOOSE i \in b..Len(t) :
            /\ t[i] # t[b]
            /\ \A j \in b..(i - 1) : t[j] = t[b]

\* the maximal runs of t from char b on
RECURSIVE RunsFrom(_, _)
RunsFrom(t, b) ==
    IF b > Len(t) THEN <<>>
    ELSE <<[c |-> t[b], n |-> RunEnd(t, b) - b]>> \o RunsFrom(t, RunEnd(t, b))

\* the run-length encoding of the char sequence t
Runs(t) == RunsFrom(t, 1)

TextsOf(rss) == [i \in 1..Len(rss) |-> Text(rss[i])]
RunsOf(ts) == [i \in 1..Len(ts) |-> Runs(ts[i])]

(***************************************************************************)
(* The alphabet.  Chars are named by themselves (ASCII) or by code point.  *)
(*   "U+000A"  LINE FEED               1 byte,  whitespace, Control        *)
(*   "U+00E9"  e with acute            2 bytes                             *)
(*   "U+00EF"  i with diaeresis        2 bytes                             *)
(*   "U+0301"  COMBINING ACUTE ACCENT  2 bytes, Extend                     *)
(*   "U+3000"  IDEOGRAPHIC SPACE       3 bytes, whitespace                 *)
(*   "U+200D"  ZERO WIDTH JOINER       3 bytes, ZWJ                        *)
(*   "U+20E3"  COMBINING ENCLOSING KEYCAP   3 bytes, Extend                *)
(*   "U+FE0F"  VARIATION SELECTOR-16   3 bytes, Extend                     *)
(*   "U+26A1"  HIGH VOLTAGE SIGN       3 bytes, Emoji_Presentation and     *)
(*                                     Extended_Pictographic               *)
(*   "U+2714"  HEAVY CHECK MARK        3 bytes, Extended_Pictographic      *)
(*   "U+1F600" GRINNING FACE           4 bytes, Emoji_Presentation and     *)
(*                                     Extended_Pictographic               *)
(*   "U+1F3FD" EMOJI MODIFIER FITZPATRICK TYPE-4   4 bytes,                *)
(*                                     Emoji_Presentation, Extend          *)
(***************************************************************************)
Digits == <<"0", "1", "2", "3", "4", "5", "6", "7", "8", "9">>

\* char::is_whitespace (the Unicode White_Space property)
IsWhitespace(c) == c \in {" ", "U+000A", "U+3000"}

\* char::len_utf8
MultiByteChars ==
    {"U+00E9", "U+00EF", "U+0301", "U+3000", "U+200D", "U+20E3", "U+FE0F",
     "U+26A1", "U+2714", "U+1F600", "U+1F3FD"}

LenUtf8(c) ==
    IF c \notin MultiByteChars THEN 1
    ELSE CASE c \in {"U+00E9", "U+00EF", "U+0301"} -> 2
           [] c \in {"U+3000", "U+200D", "U+20E3", "U+FE0F", "U+26A1", "U+2714"} -> 3
           [] c \in {"U+1F600", "U+1F3FD"} -> 4

\* Grapheme_Cluster_Break = Extend
IsExtend(c) == c \in {"U+0301", "U+20E3", "U+FE0F", "U+1F3FD"}

\* Grapheme_Cluster_Break = ZWJ
IsZwj(c) == c = "U+200D"

\* the property Extended_Pictographic
IsExtendedPictographic(c) == c \in {"U+26A1", "U+2714", "U+1F600"}

\* the property Emoji_Presentation
IsEmojiPresentation(c) == c \in {"U+26A1", "U+1F600", "U+1F3FD"}

\* Grapheme_Cluster_Break = Control | CR | LF
IsControl(c) == c = "U+000A"

(***************************************************************************)
(* str::graphemes(true) on the slice s[from..]: char i begins a grapheme   *)
(* cluster when it is the first char of the slice, or when neither rule    *)
(* GB9 (x (Extend | ZWJ)) nor rule GB11 (Extended_Pictographic Extend* ZWJ *)
(* x Extended_Pictographic) glues it to the char before it; GB4 breaks     *)
(* after a Control char whatever follows.                                  *)
(***************************************************************************)
\* rule GB11 applies between the chars i - 1 and i of the slice s[from..]
JoinedByZwj(s, from, i) ==
    /\ IsExtendedPictographic(s[i])
    /\ i - 2 >= from
    /\ IsZwj(s[i - 1])
    /\ \E k \in from..(i - 2) :
          /\ IsExtendedPictographic(s[k])
          /\ \A j \in (k + 1)..(i - 2) : IsExtend(s[j])

\* the chars that one of the rules GB9 and GB11 may glue to the char
\* before them
GluedChars ==
    {"U+0301", "U+20E3", "U+FE0F", "U+1F3FD", "U+200D", "U+26A1", "U+2714",
     "U+1F600"}

IsGraphemeStart(s, from, i) ==
    \/ i = from
    \/ s[i] \notin GluedChars
    \/ IsControl(s[i - 1])
    \/ ~IsExtend(s[i]) /\ ~IsZwj(s[i]) /\ ~JoinedByZwj(s, from, i)

\* s[from..].graphemes(true).count(); from is a 1-based char index
GraphemeCount(s, from) ==
    Cardinality({i \in from..Len(s) : IsGraphemeStart(s, from, i)})

\* str::len of the chars lo..hi of s, in bytes
RECURSIVE ByteLen(_, _, _)
ByteLen(s, lo, hi) ==
    IF lo > hi THEN 0
    ELSE IF lo = hi THEN LenUtf8(s[lo])
    ELSE LET mid == (lo + hi) \div 2
         IN  ByteLen(s, lo, mid) + ByteLen(s, mid + 1, hi)

\* an emptiness test that forgets the trim
IsBlank_NoTrim(s) == Len(s) = 0

\* str::trim().is_empty()
IsBlank(s) == \A i \in 1..Len(s) : IsWhitespace(s[i])

\* str::trim_start: index of the first non-whitespace char at or after
\* from, Len(s) + 1 when there is none
FirstNonWhitespace(s, from) ==
    IF \A i \in from..Len(s) : IsWhitespace(s[i]) THEN Len(s) + 1
    ELSE CHOOSE i \in from..Len(s) :
            /\ ~IsWhitespace(s[i])
            /\ \A j \in from..(i - 1) : IsWhitespace(s[j])

\* str::trim_end: index of the last non-whitespace char, 0 when none
LastNonWhitespace(s) ==
    IF \A i \in 1..Len(s) : IsWhitespace(s[i]) THEN 0
    ELSE CHOOSE i \in 1..Len(s) :
            /\ ~IsWhitespace(s[i])
            /\ \A j \in (i + 1)..Len(s) : IsWhitespace(s[j])

\* trim_start where trim is meant
Trim_StartOnly(s) == SubSeq(s, FirstNonWhitespace(s, 1), Len(s))

\* str::trim
Trim(s) == SubSeq(s, FirstNonWhitespace(s, 1), LastNonWhitespace(s))

(***************************************************************************)
(* MessageChunker::chunk, the scan of one loop iteration (the for loop     *)
(* over remaining.graphemes(true).enumerate()).  The loop pushes the       *)
(* first effective_chunk_limit graphemes and stops; it is given here by    *)
(* what it leaves in its three accumulators.                               *)
(***************************************************************************)
\* index of the last char pushed onto chunk_text: the char before the
\* grapheme numbered limit (0-based) of s[from..]; the caller has
\* established that the slice holds more than limit graphemes
ScanEnd(s, from, limit) ==
    (CHOOSE i \in (from + limit)..Len(s) :
        /\ IsGraphemeStart(s, from, i)
        /\ Cardinality({j \in from..(i - 1) : IsGraphemeStart(s, from, j)}) = limit) - 1

\* index of the last char of the last scanned grapheme that holds a
\* whitespace char (where last_word_boundary_pos was last assigned);
\* from - 1 when no scanned grapheme holds one
LastWordBoundaryEnd(s, from, scan_end) ==
    IF \A i \in from..scan_end : ~IsWhitespace(s[i]) THEN from - 1
    ELSE LET w == CHOOSE i \in from..scan_end :
                    /\ IsWhitespace(s[i])
                    /\ \A j \in (i + 1)..scan_end : ~IsWhitespace(s[j])
         IN  IF \E i \in (w + 1)..scan_end : IsGraphemeStart(s, from, i)
             THEN (CHOOSE i \in (w + 1)..scan_end :
                      /\ IsGraphemeStart(s, from, i)
                      /\ \A j \in (w + 1)..(i - 1) : ~IsGraphemeStart(s, from, j)) - 1
             ELSE scan_end

\* a limit that forgets the margin reserved for the label
effective_chunk_limit_NoReserve == MAX_MESSAGE_LENGTH

\* a limit that reserves the margin twice
effective_chunk_limit_DoubleReserve == MAX_MESSAGE_LENGTH - 2 * PREFIX_RESERVE_LENGTH

\* let effective_chunk_limit = MAX_MESSAGE_LENGTH - PREFIX_RESERVE_LENGTH
effective_chunk_limit == MAX_MESSAGE_LENGTH - PREFIX_RESERVE_LENGTH

\* a skip that starts one char early, on the last char of the chunk
SkipWhitespace_FromSplitChar(s, from) == FirstNonWhitespace(s, from - 1)

\* a loop without the skip: the next chunk starts at the split point
SkipWhitespace_None(s, from) == from

\* the inner while loop that skips whitespace at the start of the next
\* chunk: current_pos advances, from the split point, over every
\* whitespace char up to the first other char or the end of the message
SkipWhitespace(s, from) == FirstNonWhitespace(s, from)

\* an iteration that assigns the split offset to current_pos where the
\* code adds it
ChunkIteration_SplitPosAssigned(message, current_pos) ==
    IF GraphemeCount(message, current_pos) <= effective_chunk_limit
    THEN [chunk |-> Trim(SubSeq(message, current_pos, Len(message))),
          current_pos |-> current_pos,
          break |-> TRUE]
    ELSE
      LET scan_end == ScanEnd(message, current_pos, effective_chunk_limit)
          byte_pos == ByteLen(message, current_pos, scan_end)
          boundary_end == LastWordBoundaryEnd(message, current_pos, scan_end)
          last_word_boundary_pos == ByteLen(message, current_pos, boundary_end)
          use_boundary == last_word_boundary_pos > byte_pos \div MIN_BOUNDARY_RATIO
          split_end == IF use_boundary THEN boundary_end ELSE scan_end
      IN  [chunk |-> Trim(SubSeq(message, current_pos, split_end)),
           current_pos |-> SkipWhitespace(message, split_end - current_pos + 2),
           break |-> FALSE]

(***************************************************************************)
(* MessageChunker::chunk, one iteration of the while loop, entered with    *)
(* current_pos < message.len().  current_pos is the 1-based index of the   *)
(* first char of `remaining`.  The result is the chunk the iteration       *)
(* pushes, the value it leaves in current_pos, and whether it leaves the   *)
(* loop by `break`.                                                        *)
(***************************************************************************)
ChunkIteration(message, current_pos) ==
    IF GraphemeCount(message, current_pos) <= effective_chunk_limit
    THEN [chunk |-> Trim(SubSeq(message, current_pos, Len(message))),
          current_pos |-> current_pos,
          break |-> TRUE]
    ELSE
      LET scan_end == ScanEnd(message, current_pos, effective_chunk_limit)
          byte_pos == ByteLen(message, current_pos, scan_end)
          boundary_end == LastWordBoundaryEnd(message, current_pos, scan_end)
          last_word_boundary_pos == ByteLen(message, current_pos, boundary_end)
          use_boundary == last_word_boundary_pos > byte_pos \div MIN_BOUNDARY_RATIO
          split_pos == IF use_boundary THEN last_word_boundary_pos ELSE byte_pos
          split_end == IF use_boundary THEN boundary_end ELSE scan_end
      IN  IF split_pos > 0
          THEN [chunk |-> Trim(SubSeq(message, current_pos, split_end)),
                current_pos |-> SkipWhitespace(message, split_end + 1),
                break |-> FALSE]
          ELSE [chunk |-> <<message[current_pos]>>,
                current_pos |-> current_pos + 1,
                break |-> FALSE]

\* MessageChunker::chunk, the while loop run to its end
RECURSIVE ChunkLoop(_, _, _)
ChunkLoop(message, current_pos, chunks) ==
    IF ~(current_pos <= Len(message)) THEN chunks
    ELSE LET it == ChunkIteration(message, current_pos)
         IN  IF it.break THEN Append(chunks, it.chunk)
             ELSE ChunkLoop(message, it.current_pos, Append(chunks, it.chunk))

\* MessageChunker::chunk
Chunk(message) ==
    IF IsBlank(message) THEN <<>>
    ELSE IF GraphemeCount(message, 1) <= MAX_MESSAGE_LENGTH THEN <<message>>
    ELSE ChunkLoop(message, 1, <<>>)

(***************************************************************************)
(* MessageChunker::format_chunks                                           *)
(***************************************************************************)
\* Display for usize, as format!("{}") renders it
RECURSIVE Decimal(_)
Decimal(n) ==
    IF n < 10 THEN <<Digits[n + 1]>>
    ELSE Decimal(n \div 10) \o <<Digits[(n % 10) + 1]>>

\* a label that numbers the chunks from 0
FormatChunk_ZeroBased(i, len, chunk) ==
    <<"[">> \o Decimal(i) \o <<"/">> \o Decimal(len) \o <<"]", " ">> \o chunk

\* format!("[{}/{}] {}", index + 1, chunks.len(), chunk), index 0-based
FormatChunk(i, len, chunk) ==
    <<"[">> \o Decimal(i + 1) \o <<"/">> \o Decimal(len) \o <<"]", " ">> \o chunk

FormatChunks(chunks) ==
    IF Len(chunks) <= 1 THEN chunks
    ELSE [i \in 1..Len(chunks) |-> FormatChunk(i - 1, Len(chunks), chunks[i])]

(***************************************************************************)
(* MessageSanitizer::sanitize.  EMOJI_REGEX is                             *)
(*   [\p{Emoji_Presentation}\p{Extended_Pictographic}][\u{FE0F}\u{20E3}]?  *)
(* and replace_all rewrites its matches from left to right, each match     *)
(* starting where the one before ended.  A char of the second class is     *)
(* not in the first, so every char of the first class begins a match, and  *)
(* the match takes the char after it when that char is of the second       *)
(* class (the `?` is greedy).                                              *)
(***************************************************************************)
\* the first char class of EMOJI_REGEX
IsEmojiBase(c) == IsEmojiPresentation(c) \/ IsExtendedPictographic(c)

\* the second char class of EMOJI_REGEX
IsEmojiSuffix(c) == c \in {"U+FE0F", "U+20E3"}

\* a regex without its optional second class
MatchEnd_BaseOnly(s, i) == i

\* index of the last char of the match that begins at char i
MatchEnd(s, i) ==
    IF i < Len(s) /\ IsEmojiSuffix(s[i + 1]) THEN i + 1 ELSE i

\* the allow-list behind is_supported_emoji: HIGH VOLTAGE SIGN as a bare
\* char, HEAVY CHECK MARK with its variation selector
SupportedEmojis == {<<"U+26A1">>, <<"U+2714", "U+FE0F">>}

\* supported_emojis::is_supported_emoji: exact membership in the list
IsSupportedEmoji(emoji) == emoji \in SupportedEmojis

\* emoji.replace('\u{FE0F}', "")
StripVariationSelector(emoji) == SelectSeq(emoji, LAMBDA c : c # "U+FE0F")

\* a placeholder that spells out what it replaces
Placeholder_Long == <<"[", "e", "m", "o", "j", "i", "]">>

\* the literal "[]"
Placeholder == <<"[", "]">>

\* a closure that hands back the normalized form of a supported match
Replacement_ReturnsNormalized(emoji) ==
    IF \/ IsSupportedEmoji(StripVariationSelector(emoji))
       \/ IsSupportedEmoji(emoji)
    THEN StripVariationSelector(emoji)
    ELSE Placeholder

\* the closure given to replace_all: what a match is replaced by
Replacement(emoji) ==
    IF \/ IsSupportedEmoji(StripVariationSelector(emoji))
       \/ IsSupportedEmoji(emoji)
    THEN emoji
    ELSE Placeholder

\* what replace_all writes when it passes char i of s: the replacement of
\* the match that begins there, nothing for the second char of a match,
\* and the char itself outside the matches
SanitizedPiece(s, i) ==
    IF IsEmojiBase(s[i]) THEN Replacement(SubSeq(s, i, MatchEnd(s, i)))
    ELSE IF i > 1 /\ IsEmojiBase(s[i - 1]) /\ MatchEnd(s, i - 1) = i THEN <<>>
    ELSE <<s[i]>>

\* replace_all over the chars lo..hi of s
RECURSIVE SanitizeRange(_, _, _)
SanitizeRange(s, lo, hi) ==
    IF lo > hi THEN <<>>
    ELSE IF lo = hi THEN SanitizedPiece(s, lo)
    ELSE LET mid == (lo + hi) \div 2
         IN  SanitizeRange(s, lo, mid) \o SanitizeRange(s, mid + 1, hi)

\* MessageSanitizer::sanitize
Sanitize(message) == SanitizeRange(message, 1, Len(message))

(***************************************************************************)
(* Bounds of the model and the input texts built from them.                *)
(***************************************************************************)
\* longest text of the exhaustive family of short texts
MaxShort == 3
\* most whitespace chars put before and after a long text
MaxPad == 1
\* how far run lengths range around the thresholds of the code
Delta == 1
\* longest chunk sequence handed to format_chunks directly
MaxChunks == 12
\* the number of chunks of the one very long text
ManyChunks == 100
\* most words of a message handed to the client
MaxWords == 3
\* longest text of the exhaustive family of texts handed to sanitize
MaxSanitize == 4
\* largest status code handed to from_status_code directly
MaxStatus == 599
\* longest blank text handed to the client
MaxBlank == 2


\* every text of exactly n chars over the chars of cs
RECURSIVE TextsOfLen(_, _)
TextsOfLen(cs, n) ==
    IF n = 0 THEN {<<>>}
    ELSE {Append(t, c) : t \in TextsOfLen(cs, n - 1), c \in cs}

ShortTexts ==
    UNION {TextsOfLen({"a", " ", "U+0301", "U+3000"}, n) : n \in 0..MaxShort}

EffectiveLimit == MAX_MESSAGE_LENGTH - PREFIX_RESERVE_LENGTH

\* run lengths around one third of the scan window, around the window and
\* around the absolute limit
RunLengths ==
    UNION {(t - Delta)..(t + Delta) :
              t \in {EffectiveLimit \div MIN_BOUNDARY_RATIO, EffectiveLimit,
                     MAX_MESSAGE_LENGTH}}

\* what separates the two runs of a long text
Gaps ==
    {<<>>, <<" ">>, <<" ", "U+0301">>, <<"U+3000", "U+000A", " ">>,
     Rep(" ", 2 * (EffectiveLimit \div MIN_BOUNDARY_RATIO))}

\* pad ++ run of n1 ++ gap ++ run of n2 ++ pad
LongTexts ==
    {Rep(" ", l) \o Rep(x, n1) \o g \o Rep("b", n2) \o Rep("U+000A", t) :
        l \in 0..MaxPad, t \in 0..MaxPad, x \in {"a", "U+1F600"},
        n1 \in RunLengths, g \in Gaps, n2 \in {0, PREFIX_RESERVE_LENGTH, 700}}

\* the texts of the repository's tests test_long_message_chunking and
\* test_very_long_single_word, and a text of 999 graphemes in 1000 chars
TestTexts ==
    {Rep("a", 1500), Rep("a", 1000),
     <<"a", "U+0301">> \o Rep("a", MAX_MESSAGE_LENGTH - 1)}

\* a full window of text after a whitespace run of about one third of
\* the window
PaddedTexts ==
    {Rep(" ", n) \o Rep("a", EffectiveLimit) :
        n \in (EffectiveLimit \div MIN_BOUNDARY_RATIO - Delta)
                ..(EffectiveLimit \div MIN_BOUNDARY_RATIO + Delta)}

ChunkerInputs == ShortTexts \cup LongTexts \cup TestTexts \cup PaddedTexts

\* one unbroken run that takes ManyChunks iterations of the loop
ManyChunkInputs == {Rep("a", (ManyChunks - 1) * EffectiveLimit + 1)}

\* the grapheme clusters of the unbroken runs: a char of one byte, of two
\* bytes and of four bytes
RunGraphemes == {"a", "U+00E9", "U+1F600"}

\* the lengths of the unbroken runs, in grapheme clusters: around every
\* multiple of the scan window up to the ceiling of validate_message,
\* around the absolute limit, the lengths of the repository's tests and
\* the ceiling
UnbrokenLengths ==
    UNION {(k * EffectiveLimit - Delta)..(k * EffectiveLimit + Delta) :
              k \in 1..(CLI_MAX_MESSAGE_LENGTH \div EffectiveLimit)}
    \cup (MAX_MESSAGE_LENGTH - Delta)..(MAX_MESSAGE_LENGTH + Delta)
    \cup {1500, CLI_MAX_MESSAGE_LENGTH}

UnbrokenInputs == {Rep(g, n) : g \in RunGraphemes, n \in UnbrokenLengths}

\* chunk sequences for format_chunks: n chunks, alternately p and q
FormatInputs ==
    {[i \in 1..n |-> IF i % 2 = 1 THEN p ELSE q] :
        n \in 0..MaxChunks,
        p \in {<<>>, <<"a">>, <<"[", "1", "/", "2", "]", " ", "a">>},
        q \in {<<"b", " ", "b">>, <<"0">>, <<" ">>}}

\* k words of 600 chars, one space between two words
RECURSIVE Words(_)
Words(k) == IF k = 1 THEN Rep("a", 600) ELSE Words(k - 1) \o <<" ">> \o Rep("a", 600)

DispatchInputs ==
    {<<>>, <<" ">>, <<"U+000A", " ">>}
    \cup {Rep(" ", l) \o Rep("a", n) \o Rep(" ", t) :
            l \in 0..MaxPad, t \in 0..MaxPad,
            n \in {1, MAX_MESSAGE_LENGTH - 2, MAX_MESSAGE_LENGTH + 1}}
    \cup {Words(k) : k \in 1..MaxWords}

\* the chars of the texts handed to sanitize
SanitizerChars ==
    {"a", "U+26A1", "U+2714", "U+1F600", "U+1F3FD", "U+FE0F", "U+20E3", "U+200D"}

\* texts of the repository's sanitizer tests, cut short: accents, a
\* supported and an unsupported emoji between words
SanitizerTestTexts ==
    {<<"C", "a", "f", "U+00E9", " ", "n", "a", "U+00EF", "f">>,
     <<"e", "U+0301", " ", "[", "]", "1", "U+20E3">>,
     <<"T", ":", " ", "U+26A1", " ", "s", " ", "U+1F600", " ", "u", " ", "U+26A1">>}

SanitizerInputs ==
    UNION {TextsOfLen(SanitizerChars, n) : n \in 0..MaxSanitize}
    \cup SanitizerTestTexts

\* user and pass values: empty, blank, and not blank with and without
\* outer whitespace
CredentialTexts ==
    {<<>>, <<" ">>, <<"U+000A", "U+3000">>, <<"1">>, <<" ", "k">>}

\* the texts handed to the client: blank texts of up to MaxBlank chars,
\* short texts with and without emoji, and a text of two chunks
ClientInputs ==
    UNION {TextsOfLen({" ", "U+000A", "U+3000"}, n) : n \in 0..MaxBlank}
    \cup {<<"a">>, <<" ", "a", " ">>, <<"U+1F600">>, <<"U+26A1", "U+FE0F", " ">>,
          Rep("a", MAX_MESSAGE_LENGTH + 1)}

\* run lengths around the number of chars c that fill the ceiling of
\* validate_message, and around the ceiling itself
CeilingLengths(c) ==
    UNION {(t - Delta)..(t + Delta) :
              t \in {CLI_MAX_MESSAGE_LENGTH \div LenUtf8(c), CLI_MAX_MESSAGE_LENGTH}}

\* the texts handed to validate_message: the short texts, and runs of one
\* char, of one to four bytes, with and without a char before them
ValidateInputs ==
    ShortTexts
    \cup UNION {{p \o Rep(c, n) :
                    p \in {<<>>, <<" ">>, <<"a", "U+0301">>},
                    n \in CeilingLengths(c)} :
                c \in {"a", "U+00E9", "U+3000", "U+1F600"}}

\* a message of MAX_MESSAGE_LENGTH + 1 clusters whose only whitespace
\* stands early in the first window, after chars of two bytes
EarlyBoundaryText ==
    Rep("U+00E9", 198) \o <<" ">> \o Rep("b", MAX_MESSAGE_LENGTH - 198)

\* the messages given on the command line
CliInputs ==
    {<<" ">>, <<"a">>, <<"U+1F600", " ", "U+26A1">>,
     Rep("a", CLI_MAX_MESSAGE_LENGTH + 1), EarlyBoundaryText}
    \cup {Words(k) : k \in 2..MaxWords}

(***************************************************************************)
(* State.                                                                  *)
(* message, chunks, formatted and requests hold texts as runs; Message,     *)
(* Chunks and Formatted are the texts themselves.                          *)
(*   pc          where the modelled call stands                            *)
(*   message     the argument of chunk / of send_sanitized                 *)
(*   current_pos chunk's loop variable (1-based char index)                *)
(*   chunks      chunk's result (while in the loop: the chunks pushed)     *)
(*   formatted   format_chunks' result (send_sanitized: formatted_chunks)  *)
(*   index       send_sanitized's loop index, 0-based                      *)
(*   requests    the msg values of the requests handed to the transport    *)
(*   responses   what the transport answered, one entry per answer         *)
(*   events      the calls send_sanitized has made, in order               *)
(*   result      what send_sanitized returned, "none" before it returns    *)
(*   auth        the user and pass values of the requests, one per request *)
(*   text        the argument of sanitize / validate_message / send        *)
(*   sanitized   the results of sanitize, one per call                     *)
(*   credentials the Credentials given to FreeMobileClient::new            *)
(*   handler     where the task spawned for ctrl-c stands                  *)
(*   exited      the exit code of the process, "no" while it runs          *)
(*   output      what the program has printed, in order                    *)
(***************************************************************************)
VARIABLES pc, message, current_pos, chunks, formatted, index, requests,
          responses, events, result, auth, text, sanitized, credentials,
          handler, exited, output

vars == <<pc, message, current_pos, chunks, formatted, index, requests,
          responses, events, result, auth, text, sanitized, credentials,
          handler, exited, output>>

clientVars == <<index, requests, responses, events, result, auth>>

callerVars == <<text, sanitized, credentials, handler, exited, output>>

Message == Text(message)
Chunks == TextsOf(chunks)
Formatted == TextsOf(formatted)

\* the credentials of the repository's test test_client_creation, cut to
\* one char each
TestCredentials == [user |-> <<"1">>, pass |-> <<"k">>]

CallerIdle ==
    /\ text = <<>>
    /\ sanitized = <<>>
    /\ credentials = TestCredentials
    /\ handler = "waiting"
    /\ exited = "no"
    /\ output = <<>>

ClientIdle ==
    /\ index = 0
    /\ requests = <<>>
    /\ responses = <<>>
    /\ events = <<>>
    /\ result = "none"
    /\ auth = <<>>

(***************************************************************************)
(* MessageChunker::chunk and MessageChunker::format_chunks applied to an   *)
(* input, the while loop of chunk one iteration at a time.                 *)
(***************************************************************************)
\* chunk up to the while loop: the two early returns and the loop's setup
ChunkEnter ==
    /\ pc = "chunk"
    /\ IF IsBlank(Message)
       THEN chunks' = <<>> /\ pc' = "chunked"
       ELSE IF GraphemeCount(Message, 1) <= MAX_MESSAGE_LENGTH
       THEN chunks' = RunsOf(<<Message>>) /\ pc' = "chunked"
       ELSE chunks' = <<>> /\ pc' = "loop"
    /\ current_pos' = 1
    /\ UNCHANGED <<message, formatted, clientVars, callerVars>>

\* one test of the while condition and, when it holds, one iteration
ChunkWhile ==
    /\ pc = "loop"
    /\ IF current_pos <= Len(Message)
       THEN LET it == ChunkIteration(Message, current_pos)
            IN  /\ chunks' = Append(chunks, Runs(it.chunk))
                /\ current_pos' = it.current_pos
                /\ pc' = IF it.break THEN "chunked" ELSE "loop"
       ELSE /\ pc' = "chunked"
            /\ UNCHANGED <<chunks, current_pos>>
    /\ UNCHANGED <<message, formatted, clientVars, callerVars>>

FormatChunksCall ==
    /\ pc = "chunked"
    /\ formatted' = RunsOf(FormatChunks(Chunks))
    /\ pc' = "formatted"
    /\ UNCHANGED <<message, current_pos, chunks, clientVars, callerVars>>

InitChunker ==
    /\ pc = "chunk"
    /\ message \in {Runs(t) : t \in ChunkerInputs}
    /\ current_pos = 1
    /\ chunks = <<>>
    /\ formatted = <<>>
    /\ ClientIdle
    /\ CallerIdle

NextChunker == ChunkEnter \/ ChunkWhile \/ FormatChunksCall

SpecChunker == InitChunker /\ [][NextChunker]_vars

InitManyChunks ==
    /\ pc = "chunk"
    /\ message \in {Runs(t) : t \in ManyChunkInputs}
    /\ current_pos = 1
    /\ chunks = <<>>
    /\ formatted = <<>>
    /\ ClientIdle
    /\ CallerIdle

SpecManyChunks == InitManyChunks /\ [][NextChunker]_vars

InitUnbroken ==
    /\ pc = "chunk"
    /\ message \in {Runs(t) : t \in UnbrokenInputs}
    /\ current_pos = 1
    /\ chunks = <<>>
    /\ formatted = <<>>
    /\ ClientIdle
    /\ CallerIdle

SpecUnbroken == InitUnbroken /\ [][NextChunker]_vars

InitFormat ==
    /\ pc = "chunked"
    /\ message = <<>>
    /\ current_pos = 1
    /\ chunks \in {RunsOf(ts) : ts \in FormatInputs}
    /\ formatted = <<>>
    /\ ClientIdle
    /\ CallerIdle

NextFormat == FormatChunksCall

SpecFormat == InitFormat /\ [][NextFormat]_vars

(***************************************************************************)
(* MessageSanitizer::sanitize applied to a text, and then to its own       *)
(* result.                                                                 *)
(***************************************************************************)
Sanitized == TextsOf(sanitized)

\* one call of sanitize: the first on the text, the second on what the
\* first returned
SanitizeCall ==
    /\ pc \in {"sanitize", "sanitized"}
    /\ Len(sanitized) < 2
    /\ sanitized' =
          Append(sanitized,
                 Runs(Sanitize(IF sanitized = <<>> THEN Text(text)
                               ELSE Sanitized[Len(sanitized)])))
    /\ pc' = "sanitized"
    /\ UNCHANGED <<message, current_pos, chunks, formatted, clientVars, text,
                   credentials, handler, exited, output>>

InitSanitizer ==
    /\ pc = "sanitize"
    /\ message = <<>>
    /\ current_pos = 1
    /\ chunks = <<>>
    /\ formatted = <<>>
    /\ ClientIdle
    /\ text \in {Runs(t) : t \in SanitizerInputs}
    /\ sanitized = <<>>
    /\ credentials = TestCredentials
    /\ handler = "waiting"
    /\ exited = "no"
    /\ output = <<>>

NextSanitizer == SanitizeCall

SpecSanitizer == InitSanitizer /\ [][NextSanitizer]_vars

(***************************************************************************)
(* FreeMobileClient::send_sanitized and send_chunk.  The transport is the  *)
(* environment: it answers a request with an HTTP status, or the request   *)
(* fails without one (request.send() returns Err).                         *)
(***************************************************************************)
\* request.send().await returned Err: there is no status
NoResponse == 0

\* what the transport may answer
Statuses == {200, 204, 299, 300, 400, 401, 402, 403, 404, 500, 503, NoResponse}

\* StatusCode::is_success
IsSuccess(status) == status \in 200..299

\* constants::status_codes
INVALID_CREDENTIALS == 400
TOO_MANY_REQUESTS == 402
ACCESS_DENIED == 403
SERVER_ERROR == 500

\* a match whose second and third arms have changed places
FromStatusCode_ArmsSwapped(status) ==
    CASE status = INVALID_CREDENTIALS -> "InvalidCredentials"
      [] status = TOO_MANY_REQUESTS -> "AccessDenied"
      [] status = ACCESS_DENIED -> "TooManyRequests"
      [] status = SERVER_ERROR -> "ServerError"
      [] OTHER -> "Unknown"

\* FreeMobileError::from_status_code
FromStatusCode(status) ==
    CASE status = INVALID_CREDENTIALS -> "InvalidCredentials"
      [] status = TOO_MANY_REQUESTS -> "TooManyRequests"
      [] status = ACCESS_DENIED -> "AccessDenied"
      [] status = SERVER_ERROR -> "ServerError"
      [] OTHER -> "Unknown"

\* what send_chunk returns for the transport's answer
SendChunkResult(status) ==
    IF status = NoResponse THEN "HttpError"
    ELSE IF ~IsSuccess(status) THEN FromStatusCode(status)
    ELSE "Ok"

Event(kind, i, arg) == [kind |-> kind, index |-> i, arg |-> arg]

\* a send_sanitized without its empty-message check
SendSanitized_NoEmptyCheck ==
    /\ pc = "send_sanitized"
    /\ chunks' = RunsOf(Chunk(Message))
    /\ formatted' = RunsOf(FormatChunks(Chunk(Message)))
    /\ IF FormatChunks(Chunk(Message)) = <<>>
       THEN result' = "Ok" /\ pc' = "returned"
       ELSE result' = result /\ pc' = "send_chunk"
    /\ index' = 0
    /\ UNCHANGED <<message, current_pos, requests, responses, events, auth, callerVars>>

\* send_sanitized from its entry to the first await: the empty-message
\* check, chunk, format_chunks and the entry of the for loop
SendSanitized ==
    /\ pc = "send_sanitized"
    /\ IF IsBlank(Message)
       THEN /\ result' = "EmptyMessage"
            /\ pc' = "returned"
            /\ UNCHANGED <<chunks, formatted>>
       ELSE /\ chunks' = RunsOf(Chunk(Message))
            /\ formatted' = RunsOf(FormatChunks(Chunk(Message)))
            /\ IF FormatChunks(Chunk(Message)) = <<>>
               THEN result' = "Ok" /\ pc' = "returned"
               ELSE result' = result /\ pc' = "send_chunk"
    /\ index' = 0
    /\ UNCHANGED <<message, current_pos, requests, responses, events, auth, callerVars>>

\* a loop of send_sanitized that sends the chunks, not the formatted chunks
SendChunk_Unformatted ==
    /\ pc = "send_chunk"
    /\ requests' = Append(requests, chunks[index + 1])
    /\ events' = Append(events, Event("send_chunk", index + 1, 0))
    /\ auth' = Append(auth, credentials)
    /\ pc' = "await_response"
    /\ UNCHANGED <<message, current_pos, chunks, formatted, index, responses, result,
                   callerVars>>

\* self.send_chunk(chunk) up to its await: the request carrying the
\* formatted chunk of the loop index is handed to the transport
SendChunk ==
    /\ pc = "send_chunk"
    /\ requests' = Append(requests, formatted[index + 1])
    /\ events' = Append(events, Event("send_chunk", index + 1, 0))
    /\ auth' = Append(auth, credentials)
    /\ pc' = "await_response"
    /\ UNCHANGED <<message, current_pos, chunks, formatted, index, responses, result,
                   callerVars>>

\* a loop that sleeps after every chunk, the last one too
ChunkSent_SleepAfterEach ==
    /\ pc = "await_response"
    /\ \E status \in Statuses :
          /\ SendChunkResult(status) = "Ok"
          /\ responses' = Append(responses, status)
          /\ events' = Append(Append(events, Event("response", index + 1, status)),
                              Event("sleep", index + 1, CHUNK_DELAY_MS))
          /\ pc' = "sleep"
          /\ UNCHANGED <<index, result>>
    /\ UNCHANGED <<message, current_pos, chunks, formatted, requests, auth, callerVars>>

\* send_chunk returns Ok: the loop starts the pacing sleep when the chunk
\* is not the last one, and otherwise ends, and send_sanitized returns Ok
ChunkSent ==
    /\ pc = "await_response"
    /\ \E status \in Statuses :
          /\ SendChunkResult(status) = "Ok"
          /\ responses' = Append(responses, status)
          /\ IF index < Len(formatted) - 1
             THEN /\ events' = Append(Append(events, Event("response", index + 1, status)),
                                      Event("sleep", index + 1, CHUNK_DELAY_MS))
                  /\ pc' = "sleep"
                  /\ UNCHANGED <<index, result>>
             ELSE /\ events' = Append(events, Event("response", index + 1, status))
                  /\ index' = index + 1
                  /\ pc' = "returned"
                  /\ result' = "Ok"
    /\ UNCHANGED <<message, current_pos, chunks, formatted, requests, auth, callerVars>>

\* a loop that drops the error of send_chunk and goes on
ChunkFailed_GoesOn ==
    /\ pc = "await_response"
    /\ \E status \in Statuses :
          /\ SendChunkResult(status) # "Ok"
          /\ responses' = Append(responses, status)
          /\ events' = Append(events, Event("response", index + 1, status))
          /\ IF index < Len(formatted) - 1
             THEN pc' = "sleep" /\ UNCHANGED <<index, result>>
             ELSE index' = index + 1 /\ pc' = "returned" /\ result' = "Ok"
    /\ UNCHANGED <<message, current_pos, chunks, formatted, requests, auth, callerVars>>

\* send_chunk returns Err and the `?` returns it from send_sanitized
ChunkFailed ==
    /\ pc = "await_response"
    /\ \E status \in Statuses :
          /\ SendChunkResult(status) # "Ok"
          /\ responses' = Append(responses, status)
          /\ events' = Append(events, Event("response", index + 1, status))
          /\ result' = SendChunkResult(status)
          /\ pc' = "returned"
    /\ UNCHANGED <<message, current_pos, chunks, formatted, index, requests, auth, callerVars>>

\* tokio::time::sleep completes: the loop goes to its next chunk
SleepDone ==
    /\ pc = "sleep"
    /\ index' = index + 1
    /\ pc' = "send_chunk"
    /\ UNCHANGED <<message, current_pos, chunks, formatted, requests, responses,
                   events, result, auth, callerVars>>

Init ==
    /\ pc = "send_sanitized"
    /\ message \in {Runs(t) : t \in DispatchInputs}
    /\ current_pos = 1
    /\ chunks = <<>>
    /\ formatted = <<>>
    /\ ClientIdle
    /\ CallerIdle

Next == SendSanitized \/ SendChunk \/ ChunkSent \/ ChunkFailed \/ SleepDone

Spec == Init /\ [][Next]_vars

(***************************************************************************)
(* Credentials, FreeMobileClient::new and FreeMobileClient::send.  The     *)
(* caller makes a client from its credentials and, when it got one, calls  *)
(* send or send_sanitized with its text.                                   *)
(***************************************************************************)
\* a validity test that looks at the user only
IsValid_UserOnly(c) == ~IsBlank(c.user)

\* Credentials::is_valid
IsValid(c) == ~IsBlank(c.user) /\ ~IsBlank(c.pass)

\* FreeMobileClient::new: the credentials are checked, then the HTTP
\* client is built, which may fail
ClientNew ==
    /\ pc = "new"
    /\ IF ~IsValid(credentials)
       THEN result' = "InvalidCredentials" /\ pc' = "returned"
       ELSE \E built \in BOOLEAN :
               IF built THEN result' = result /\ pc' = "ready"
               ELSE result' = "HttpError" /\ pc' = "returned"
    /\ UNCHANGED <<message, current_pos, chunks, formatted, index, requests,
                   responses, events, auth, callerVars>>

\* a send that hands its text to send_sanitized as it is
Send_WithoutSanitize ==
    /\ pc = "ready"
    /\ IF IsBlank(Text(text))
       THEN /\ result' = "EmptyMessage"
            /\ pc' = "returned"
            /\ UNCHANGED <<message, sanitized>>
       ELSE /\ sanitized' = <<Runs(Sanitize(Text(text)))>>
            /\ message' = text
            /\ pc' = "send_sanitized"
            /\ result' = result
    /\ UNCHANGED <<current_pos, chunks, formatted, index, requests, responses,
                   events, auth, text, credentials, handler, exited, output>>

\* FreeMobileClient::send up to its call of send_sanitized, whose
\* argument is the sanitized text
Send ==
    /\ pc = "ready"
    /\ IF IsBlank(Text(text))
       THEN /\ result' = "EmptyMessage"
            /\ pc' = "returned"
            /\ UNCHANGED <<message, sanitized>>
       ELSE /\ sanitized' = <<Runs(Sanitize(Text(text)))>>
            /\ message' = Runs(Sanitize(Text(text)))
            /\ pc' = "send_sanitized"
            /\ result' = result
    /\ UNCHANGED <<current_pos, chunks, formatted, index, requests, responses,
                   events, auth, text, credentials, handler, exited, output>>

\* the caller calls send_sanitized with its text as it is
CallSendSanitized ==
    /\ pc = "ready"
    /\ message' = text
    /\ pc' = "send_sanitized"
    /\ UNCHANGED <<current_pos, chunks, formatted, clientVars, callerVars>>

InitClient ==
    /\ pc = "new"
    /\ message = <<>>
    /\ current_pos = 1
    /\ chunks = <<>>
    /\ formatted = <<>>
    /\ ClientIdle
    /\ text \in {Runs(t) : t \in ClientInputs}
    /\ sanitized = <<>>
    /\ credentials \in [user : CredentialTexts, pass : CredentialTexts]
    /\ handler = "waiting"
    /\ exited = "no"
    /\ output = <<>>

NextClient == ClientNew \/ Send \/ CallSendSanitized \/ Next

SpecClient == InitClient /\ [][NextClient]_vars

(***************************************************************************)
(* The two ways to send a text with a client: FreeMobileClient::send, and  *)
(* MessageSanitizer::sanitize followed by send_sanitized, as run does.     *)
(***************************************************************************)
\* the caller sanitizes its text and calls send_sanitized with the result
SanitizeAndCallSendSanitized ==
    /\ pc = "ready"
    /\ sanitized' = <<Runs(Sanitize(Text(text)))>>
    /\ message' = Runs(Sanitize(Text(text)))
    /\ pc' = "send_sanitized"
    /\ UNCHANGED <<current_pos, chunks, formatted, clientVars, text, credentials,
                   handler, exited, output>>

\* the texts sent: those handed to the client and to the sanitizer's tests
SendInputs == ClientInputs \cup SanitizerTestTexts

InitSend ==
    /\ pc = "ready"
    /\ message = <<>>
    /\ current_pos = 1
    /\ chunks = <<>>
    /\ formatted = <<>>
    /\ ClientIdle
    /\ text \in {Runs(t) : t \in SendInputs}
    /\ sanitized = <<>>
    /\ credentials = TestCredentials
    /\ handler = "waiting"
    /\ exited = "no"
    /\ output = <<>>

NextSend == Send \/ SanitizeAndCallSendSanitized \/ Next

SpecSend == InitSend /\ [][NextSend]_vars

(***************************************************************************)
(* InputHandler::validate_message.                                         *)
(***************************************************************************)
\* a length check on the number of chars
ValidateMessage_CountsChars(m) ==
    IF IsBlank(m) THEN "EmptyMessage"
    ELSE IF Len(m) > CLI_MAX_MESSAGE_LENGTH THEN "InvalidMessage"
    ELSE "Ok"

\* InputHandler::validate_message; message.len() is the length in bytes
ValidateMessage(m) ==
    IF IsBlank(m) THEN "EmptyMessage"
    ELSE IF ByteLen(m, 1, Len(m)) > CLI_MAX_MESSAGE_LENGTH THEN "InvalidMessage"
    ELSE "Ok"

\* validate_message(text)
ValidateMessageCall ==
    /\ pc = "validate_message"
    /\ result' = ValidateMessage(Text(text))
    /\ pc' = "validated"
    /\ UNCHANGED <<message, current_pos, chunks, formatted, index, requests,
                   responses, events, auth, callerVars>>

InitValidate ==
    /\ pc = "validate_message"
    /\ message = <<>>
    /\ current_pos = 1
    /\ chunks = <<>>
    /\ formatted = <<>>
    /\ ClientIdle
    /\ text \in {Runs(t) : t \in ValidateInputs}
    /\ sanitized = <<>>
    /\ credentials = TestCredentials
    /\ handler = "waiting"
    /\ exited = "no"
    /\ output = <<>>

NextValidate == ValidateMessageCall

SpecValidate == InitValidate /\ [][NextValidate]_vars

(***************************************************************************)
(* The command line program: run, main and the task that run spawns for    *)
(* ctrl-c.  #[tokio::main] builds the multi-thread runtime, so the task    *)
(* runs beside run; process::exit ends both.                               *)
(***************************************************************************)
\* the process has not exited
Alive == exited = "no"

\* run, Config::from_args: the configuration is read, which may fail
RunConfig ==
    /\ Alive
    /\ pc = "run"
    /\ \E ok \in BOOLEAN :
          IF ok THEN result' = result /\ pc' = "new"
          ELSE result' = "ConfigError" /\ pc' = "returned"
    /\ UNCHANGED <<message, current_pos, chunks, formatted, index, requests,
                   responses, events, auth, callerVars>>

\* run from get_message to its call of send_sanitized: the message given
\* on the command line is validated and sanitized
RunPrepare ==
    /\ Alive
    /\ pc = "ready"
    /\ IF ValidateMessage(Text(text)) # "Ok"
       THEN /\ result' = ValidateMessage(Text(text))
            /\ pc' = "returned"
            /\ UNCHANGED <<message, sanitized>>
       ELSE /\ sanitized' = <<Runs(Sanitize(Text(text)))>>
            /\ message' = Runs(Sanitize(Text(text)))
            /\ pc' = "send_sanitized"
            /\ result' = result
    /\ UNCHANGED <<current_pos, chunks, formatted, index, requests, responses,
                   events, auth, text, credentials, handler, exited, output>>

\* run returns to main: the success line and exit code 0, or main's
\* error line and process::exit(1)
RunReturn ==
    /\ Alive
    /\ pc = "returned"
    /\ IF result = "Ok"
       THEN output' = Append(output, "sent") /\ exited' = "0"
       ELSE output' = Append(output, "error") /\ exited' = "1"
    /\ UNCHANGED <<pc, message, current_pos, chunks, formatted, clientVars,
                   text, sanitized, credentials, handler>>

\* the ctrl-c task: signal::ctrl_c() returns and the task prints its line
CtrlCPrint ==
    /\ Alive
    /\ handler = "waiting"
    /\ handler' = "printed"
    /\ output' = Append(output, "interrupted")
    /\ UNCHANGED <<pc, message, current_pos, chunks, formatted, clientVars,
                   text, sanitized, credentials, exited>>

\* a ctrl-c task that ends without ending the process
CtrlCExit_TaskEndsOnly ==
    /\ Alive
    /\ handler = "printed"
    /\ handler' = "done"
    /\ UNCHANGED <<pc, message, current_pos, chunks, formatted, clientVars,
                   text, sanitized, credentials, exited, output>>

\* the ctrl-c task: process::exit(130)
CtrlCExit ==
    /\ Alive
    /\ handler = "printed"
    /\ handler' = "done"
    /\ exited' = "130"
    /\ UNCHANGED <<pc, message, current_pos, chunks, formatted, clientVars,
                   text, sanitized, credentials, output>>

InitCli ==
    /\ pc = "run"
    /\ message = <<>>
    /\ current_pos = 1
    /\ chunks = <<>>
    /\ formatted = <<>>
    /\ ClientIdle
    /\ text \in {Runs(t) : t \in CliInputs}
    /\ sanitized = <<>>
    /\ credentials = TestCredentials
    /\ handler = "waiting"
    /\ exited = "no"
    /\ output = <<>>

\* the steps of FreeMobileClient as steps of the process: run's calls of
\* FreeMobileClient::new and of send_sanitized
RunClientNew == Alive /\ ClientNew
RunSendSanitized == Alive /\ SendSanitized
RunSendChunk == Alive /\ SendChunk
RunChunkSent == Alive /\ ChunkSent
RunChunkFailed == Alive /\ ChunkFailed
RunSleepDone == Alive /\ SleepDone

NextCli ==
    \/ RunConfig
    \/ RunClientNew
    \/ RunPrepare
    \/ RunSendSanitized
    \/ RunSendChunk
    \/ RunChunkSent
    \/ RunChunkFailed
    \/ RunSleepDone
    \/ RunReturn
    \/ CtrlCPrint
    \/ CtrlCExit

SpecCli == InitCli /\ [][NextCli]_vars

(***************************************************************************)
(* FreeMobileError::from_status_code applied to a status code, beside the  *)
(* sends of the client that reach it through send_chunk.                   *)
(***************************************************************************)
\* from_status_code(status), the status held in responses
FromStatusCodeCall ==
    /\ pc = "from_status_code"
    /\ result' = FromStatusCode(responses[1])
    /\ pc' = "mapped"
    /\ UNCHANGED <<message, current_pos, chunks, formatted, index, requests,
                   responses, events, auth, callerVars>>

InitStatus ==
    \/ Init
    \/ /\ pc = "from_status_code"
       /\ message = <<>>
       /\ current_pos = 1
       /\ chunks = <<>>
       /\ formatted = <<>>
       /\ index = 0
       /\ requests = <<>>
       /\ responses \in {<<status>> : status \in 0..MaxStatus}
       /\ events = <<>>
       /\ result = "none"
       /\ auth = <<>>
       /\ CallerIdle

NextStatus == FromStatusCodeCall \/ Next

SpecStatus == InitStatus /\ [][NextStatus]_vars

(***************************************************************************)
(* Properties of MessageChunker.                                           *)
(***************************************************************************)
ChunkReturned == pc \in {"chunked", "formatted"}

\* the grapheme-cluster length of a text
Graphemes(t) == GraphemeCount(t, 1)

\* the chars of t that are not whitespace, in order
NonWhitespace(t) == SelectSeq(t, LAMBDA c : ~IsWhitespace(c))

\* the first k texts of ts, concatenated
RECURSIVE Concat(_, _)
Concat(ts, k) == IF k = 0 THEN <<>> ELSE Concat(ts, k - 1) \o ts[k]

\* the text t stands in s at the chars from..(from + Len(t) - 1)
StandsAt(s, from, t) ==
    /\ from + Len(t) - 1 <= Len(s)
    /\ \A i \in 1..Len(t) : s[from + i - 1] = t[i]

\* the texts ts[k..] stand in s[from..] in order, without overlap, with
\* nothing but whitespace before, between and after them
RECURSIVE Tiles(_, _, _, _)
Tiles(s, from, ts, k) ==
    IF k > Len(ts) THEN \A i \in from..Len(s) : IsWhitespace(s[i])
    ELSE \/ /\ StandsAt(s, from, ts[k])
            /\ Tiles(s, from + Len(ts[k]), ts, k + 1)
         \/ LET p == FirstNonWhitespace(s, from)
            IN  /\ p > from
                /\ StandsAt(s, p, ts[k])
                /\ Tiles(s, p + Len(ts[k]), ts, k + 1)

\* C1: when chunk has split a text into more than one chunk, every
\* formatted chunk is at most MAX_MESSAGE_LENGTH grapheme clusters long,
\* whatever the number of chunks.
C1_FormattedWithinLimit ==
    (pc = "formatted" /\ Len(chunks) > 1)
        => \A i \in 1..Len(formatted) : Graphemes(Formatted[i]) <= MAX_MESSAGE_LENGTH

\* C2: a non-blank text of at most MAX_MESSAGE_LENGTH grapheme clusters
\* gives exactly one chunk, the text with its outer whitespace removed,
\* and format_chunks leaves that chunk without a label.
C2_ShortTextOneTrimmedChunk ==
    (/\ ChunkReturned
     /\ \E i \in 1..Len(Message) : ~IsWhitespace(Message[i])
     /\ Graphemes(Message) <= MAX_MESSAGE_LENGTH)
        => /\ Chunks = <<Trim(Message)>>
           /\ pc = "formatted" => Formatted = <<Trim(Message)>>

\* C3: every chunk is at most MAX_MESSAGE_LENGTH - PREFIX_RESERVE_LENGTH
\* grapheme clusters long when chunk returns more than one chunk, and at
\* most MAX_MESSAGE_LENGTH when it returns exactly one.
C3_ChunkLengths ==
    ChunkReturned
        => \A i \in 1..Len(chunks) :
              Graphemes(Chunks[i]) <=
                  IF Len(chunks) > 1
                  THEN MAX_MESSAGE_LENGTH - PREFIX_RESERVE_LENGTH
                  ELSE MAX_MESSAGE_LENGTH

\* C3's case: several chunks, one of them exactly as long as allowed
C3_Witness ==
    /\ pc = "chunked"
    /\ Len(chunks) > 1
    /\ \E i \in 1..Len(chunks) :
          Graphemes(Chunks[i]) = MAX_MESSAGE_LENGTH - PREFIX_RESERVE_LENGTH

\* C4: the chunks partition the text in order without overlap: the chunks
\* concatenated, whitespace deleted, are the text with whitespace deleted,
\* and the chunks stand in the text one after the other with nothing but
\* whitespace dropped before, between and after them.
C4_ChunksPartitionText ==
    ChunkReturned
        => /\ NonWhitespace(Concat(Chunks, Len(chunks))) = NonWhitespace(Message)
           /\ Tiles(Message, 1, Chunks, 1)

\* C4's case: several chunks, and whitespace dropped between them
C4_Witness ==
    /\ pc = "chunked"
    /\ Len(chunks) > 1
    /\ \A i \in 1..Len(chunks) : chunks[i] # <<>>
    /\ Len(Concat(Chunks, Len(chunks))) < Len(Message)

\* a text is the decimal numeral of n: digits only, no leading zero
RECURSIVE DecimalValue(_)
DecimalValue(ds) ==
    IF ds = <<>> THEN 0
    ELSE 10 * DecimalValue(SubSeq(ds, 1, Len(ds) - 1))
         + (CHOOSE d \in 0..9 : Digits[d + 1] = ds[Len(ds)])

IsNumeralOf(ds, n) ==
    /\ Len(ds) >= 1
    /\ \A k \in 1..Len(ds) : \E d \in 0..9 : Digits[d + 1] = ds[k]
    /\ ds[1] # "0"
    /\ DecimalValue(ds) = n

\* f is "[i/n] " followed by chunk
IsLabelled(f, i, n, chunk) ==
    \E la \in 1..Len(f), lb \in 1..Len(f) :
        /\ Len(f) = la + lb + 4 + Len(chunk)
        /\ f[1] = "["
        /\ IsNumeralOf(SubSeq(f, 2, la + 1), i)
        /\ f[la + 2] = "/"
        /\ IsNumeralOf(SubSeq(f, la + 3, la + lb + 2), n)
        /\ f[la + lb + 3] = "]"
        /\ f[la + lb + 4] = " "
        /\ SubSeq(f, la + lb + 5, Len(f)) = chunk

\* C8: format_chunks returns as many texts as it was given; zero or one
\* chunk is returned unchanged; of N > 1 chunks the i-th comes back as
\* "[i/N] " and the chunk, i and N in decimal without leading zeros.
C8_FormatChunks ==
    pc = "formatted"
        => /\ Len(formatted) = Len(chunks)
           /\ Len(chunks) <= 1 => formatted = chunks
           /\ Len(chunks) > 1 =>
                 \A i \in 1..Len(chunks) :
                     IsLabelled(Formatted[i], i, Len(chunks), Chunks[i])

\* C8's case: enough chunks for labels of one and of two digits
C8_Witness ==
    /\ pc = "formatted"
    /\ Len(chunks) >= 10
    /\ formatted[10] # chunks[10]

\* C9: an empty or whitespace-only text gives the empty chunk sequence.
C9_BlankGivesNoChunks ==
    (ChunkReturned /\ \A i \in 1..Len(Message) : IsWhitespace(Message[i]))
        => chunks = <<>>

\* C9's case: a text of whitespace only has been chunked
C9_Witness ==
    /\ pc = "chunked"
    /\ Len(Message) > 1
    /\ \A i \in 1..Len(Message) : IsWhitespace(Message[i])
    /\ chunks = <<>>

\* C10: when chunk returns more than one chunk, no chunk starts or ends
\* with a whitespace char.
C10_NoOuterWhitespace ==
    (ChunkReturned /\ Len(chunks) > 1)
        => \A i \in 1..Len(chunks) :
              chunks[i] # <<>> =>
                  /\ ~IsWhitespace(Chunks[i][1])
                  /\ ~IsWhitespace(Chunks[i][Len(Chunks[i])])

\* C10's case: a split at a word boundary, where the slice cut from the
\* text ends with the whitespace that was trimmed off the chunk
C10_Witness ==
    /\ pc = "chunked"
    /\ Len(chunks) > 1
    /\ chunks[1] # <<>>
    /\ StandsAt(Message, 1, Chunks[1])
    /\ IsWhitespace(Message[Len(Chunks[1]) + 1])

(***************************************************************************)
(* Properties of FreeMobileClient::send_sanitized.                         *)
(***************************************************************************)
\* C5: the formatted chunks go to the transport in order, one request per
\* chunk, at most one request in flight: the texts sent so far are a
\* prefix of the formatted chunks, and a chunk is sent only after the send
\* of every chunk before it has returned success.
C5_OrderedOneAtATime ==
    /\ Len(requests) <= Len(formatted)
    /\ \A i \in 1..Len(requests) : requests[i] = formatted[i]
    /\ Len(requests) - Len(responses) \in {0, 1}
    /\ \A i \in 1..(Len(requests) - 1) :
          i <= Len(responses) /\ responses[i] \in 200..299

\* C5's case: the third chunk of a message is in flight
C5_Witness ==
    /\ pc = "await_response"
    /\ Len(requests) = 3
    /\ Len(responses) = 2

\* C6: when the send of chunk k fails, send_sanitized stops and returns
\* that failure: no later chunk is sent, no chunk is sent twice, and no
\* pacing wait follows the failed send.
C6_StopAtFirstFailure ==
    \A k \in 1..Len(responses) :
        responses[k] \notin 200..299 =>
            /\ k = Len(responses)
            /\ pc = "returned"
            /\ result \notin {"none", "Ok", "EmptyMessage"}
            /\ result = SendChunkResult(responses[k])
            /\ requests = SubSeq(formatted, 1, k)
            /\ events[Len(events)] = Event("response", k, responses[k])

\* C6's case: the second of three chunks has failed
C6_Witness ==
    /\ Len(formatted) = 3
    /\ Len(responses) = 2
    /\ responses[2] \notin 200..299
    /\ pc = "returned"

SleepsIn(es) == {j \in 1..Len(es) : es[j].kind = "sleep"}

\* C7: a pacing wait of CHUNK_DELAY_MS happens between every two
\* consecutive successful sends and never after the last chunk: each wait
\* follows the success of a chunk that is not the last and precedes the
\* send of the next chunk, every send but the first follows a wait, and a
\* send of N chunks that succeeds has made exactly N - 1 waits.
C7_PacingBetweenSends ==
    /\ \A j \in SleepsIn(events) :
          /\ events[j].arg = 500
          /\ events[j].index < Len(formatted)
          /\ j > 1
          /\ events[j - 1].kind = "response"
          /\ events[j - 1].index = events[j].index
          /\ events[j - 1].arg \in 200..299
          /\ j < Len(events) =>
                events[j + 1] = Event("send_chunk", events[j].index + 1, 0)
    /\ \A j \in 1..Len(events) :
          (events[j].kind = "send_chunk" /\ events[j].index > 1)
              => events[j - 1].kind = "sleep"
    /\ result = "Ok" => Cardinality(SleepsIn(events)) = Len(formatted) - 1

\* C7's case: a message of three chunks has been sent with success
C7_Witness ==
    /\ result = "Ok"
    /\ Len(formatted) = 3
    /\ Cardinality(SleepsIn(events)) = 2

(***************************************************************************)
(* Properties of MessageSanitizer::sanitize.                               *)
(***************************************************************************)
\* C11: sanitize is idempotent: sanitize applied to the text that
\* sanitize returned returns that text again.
C11_SanitizeIdempotent ==
    Len(sanitized) = 2 => sanitized[2] = sanitized[1]

\* C11's case: a text that sanitize changed has been sanitized twice
C11_Witness ==
    /\ Len(sanitized) = 2
    /\ sanitized[1] # text
    /\ \E i \in 1..Len(Sanitized[1]) : IsExtendedPictographic(Sanitized[1][i])

\* a pictographic base char: Emoji_Presentation or Extended_Pictographic
IsPictographic(c) == c \in {"U+26A1", "U+2714", "U+1F600", "U+1F3FD"}

\* the cluster is in the allow-list, as it stands or without its
\* variation selector
InAllowList(cluster) ==
    \/ cluster \in SupportedEmojis
    \/ SelectSeq(cluster, LAMBDA c : c # "U+FE0F") \in SupportedEmojis

\* index of the last char of the pictographic cluster that begins at
\* char i of t: the base and one variation selector or keycap mark
ClusterEnd(t, i) ==
    IF i < Len(t) /\ t[i + 1] \in {"U+FE0F", "U+20E3"} THEN i + 1 ELSE i

\* o[j..] is t[i..] rewritten cluster by cluster: an allowed pictographic
\* cluster stands unchanged, any other is the placeholder, and every
\* other char stands unchanged, all in the order of t
RECURSIVE Rewritten(_, _, _, _)
Rewritten(t, i, o, j) ==
    IF i > Len(t) THEN j = Len(o) + 1
    ELSE IF IsPictographic(t[i])
    THEN LET cluster == SubSeq(t, i, ClusterEnd(t, i))
         IN  IF InAllowList(cluster)
             THEN /\ StandsAt(o, j, cluster)
                  /\ Rewritten(t, ClusterEnd(t, i) + 1, o, j + Len(cluster))
             ELSE /\ StandsAt(o, j, <<"[", "]">>)
                  /\ Rewritten(t, ClusterEnd(t, i) + 1, o, j + 2)
    ELSE /\ j <= Len(o)
         /\ o[j] = t[i]
         /\ Rewritten(t, i + 1, o, j + 1)

\* C12: sanitize rewrites the text cluster by cluster: a pictographic
\* cluster (a pictographic base and at most one variation selector or
\* keycap mark after it) is left as it is when it, or it without the
\* variation selector, is in the allow-list, and becomes "[]" otherwise;
\* every other char is passed through unchanged, in the same order.
C12_ClusterByCluster ==
    Len(sanitized) >= 1 => Rewritten(Text(text), 1, Sanitized[1], 1)

\* C12's case: a text with a kept cluster, a replaced cluster and a
\* cluster that is allowed only with its variation selector
C12_Witness ==
    /\ Len(sanitized) = 1
    /\ \E i, k \in 1..Len(Text(text)) :
          /\ Text(text)[i] = "U+1F600"
          /\ k < Len(Text(text))
          /\ Text(text)[k] = "U+2714"
          /\ Text(text)[k + 1] = "U+FE0F"
    /\ \E j \in 1..Len(Sanitized[1]) : Sanitized[1][j] = "U+2714"
    /\ \E j \in 1..Len(Sanitized[1]) : Sanitized[1][j] = "["

\* C13: the grapheme-cluster length of sanitize(T) is less than or equal
\* to the grapheme-cluster length of T.
C13_NeverLonger ==
    Len(sanitized) >= 1 => Graphemes(Sanitized[1]) <= Graphemes(Text(text))

\* the number of pictographic clusters of t that are not in the allow-list
ReplacedClusters(t) ==
    Cardinality({i \in 1..Len(t) :
                    /\ IsPictographic(t[i])
                    /\ ~InAllowList(SubSeq(t, i, ClusterEnd(t, i)))})

\* C13 as amended: sanitize(T) is at most three grapheme clusters longer
\* than T for every pictographic cluster it replaces by the placeholder,
\* and as long as T when it replaces none.
C13_LongerByReplacedOnly ==
    Len(sanitized) >= 1 =>
        /\ Graphemes(Sanitized[1]) <=
               Graphemes(Text(text)) + 3 * ReplacedClusters(Text(text))
        /\ ReplacedClusters(Text(text)) = 0 =>
               Graphemes(Sanitized[1]) = Graphemes(Text(text))

\* C13's case: one replaced cluster has made the text three grapheme
\* clusters longer
C13_Witness ==
    /\ Len(sanitized) = 1
    /\ ReplacedClusters(Text(text)) = 1
    /\ Graphemes(Sanitized[1]) = Graphemes(Text(text)) + 3

(***************************************************************************)
(* Properties of FreeMobileError::from_status_code and send_chunk.         *)
(***************************************************************************)
\* the table of response codes and failure categories
StatusTable ==
    {<<400, "InvalidCredentials">>, <<402, "TooManyRequests">>,
     <<403, "AccessDenied">>, <<500, "ServerError">>}

\* the category the table gives a code, "Unknown" for a code not in it
CategoryOf(code) ==
    IF \E e \in StatusTable : e[1] = code
    THEN (CHOOSE e \in StatusTable : e[1] = code)[2]
    ELSE "Unknown"

\* C14: from_status_code maps 400 to InvalidCredentials, 402 to
\* TooManyRequests, 403 to AccessDenied, 500 to ServerError and every
\* other code to Unknown; send_chunk returns success for every status
\* 200..299 (the send goes on or returns Ok) and the mapped error for
\* every other status (the send returns it).
C14_StatusMapping ==
    /\ pc = "mapped" => result = CategoryOf(responses[1])
    /\ pc \notin {"mapped", "from_status_code"} =>
          \A k \in 1..Len(responses) :
              responses[k] # NoResponse =>
                  IF responses[k] \in 200..299
                  THEN \E j \in 1..Len(events) :
                          /\ events[j] = Event("response", k, responses[k])
                          /\ IF k < Len(formatted)
                             THEN /\ j < Len(events)
                                  /\ events[j + 1].kind = "sleep"
                             ELSE pc = "returned" /\ result = "Ok"
                  ELSE /\ k = Len(responses)
                       /\ result = CategoryOf(responses[k])

\* C14's case: a success status other than 200 let the send go on, and a
\* status outside the table ended it with Unknown
C14_Witness ==
    /\ pc = "returned"
    /\ Len(responses) = 2
    /\ responses[1] = 299
    /\ responses[2] = 300
    /\ result = "Unknown"

(***************************************************************************)
(* Properties of FreeMobileClient::new, send and send_sanitized.           *)
(***************************************************************************)
\* a text with a char that is not whitespace
NotBlank(t) == \E i \in 1..Len(t) : ~IsWhitespace(t[i])

\* the call of send or send_sanitized has been made and has not returned
\* from inside the loop over the formatted chunks
InSendLoop == pc \in {"send_chunk", "await_response", "sleep"}

\* C15: for an empty or whitespace-only text, send and send_sanitized
\* return EmptyMessage and hand no request to the transport; and the loop
\* over the formatted chunks is never entered with an empty sequence, for
\* any text.
C15_BlankNeverSent ==
    /\ (\A i \in 1..Len(Text(text)) : IsWhitespace(Text(text)[i])) =>
          /\ requests = <<>>
          /\ ~InSendLoop
          /\ pc = "returned" =>
                result \in {"EmptyMessage", "InvalidCredentials", "HttpError"}
          /\ (/\ pc = "returned"
              /\ NotBlank(credentials.user) /\ NotBlank(credentials.pass)
              /\ result # "HttpError") =>
                result = "EmptyMessage"
    /\ InSendLoop => formatted # <<>>
    /\ result = "Ok" => requests # <<>>

\* C15's case: send_sanitized has returned EmptyMessage for a text of
\* whitespace chars
C15_Witness ==
    /\ pc = "returned"
    /\ result = "EmptyMessage"
    /\ message = text
    /\ Len(Text(text)) = 2

\* C18: Credentials::is_valid holds exactly when user and pass are both
\* non-empty after trimming; FreeMobileClient::new returns
\* InvalidCredentials and makes no client for every other pair, so every
\* request carries a user and a pass that are not blank.
C18_ValidCredentialsOnly ==
    /\ (pc # "new" /\ ~(NotBlank(credentials.user) /\ NotBlank(credentials.pass))) =>
          /\ pc = "returned"
          /\ result = "InvalidCredentials"
          /\ requests = <<>>
    /\ (pc # "new" /\ NotBlank(credentials.user) /\ NotBlank(credentials.pass)) =>
          ~(result = "InvalidCredentials" /\ responses = <<>>)
    /\ Len(auth) = Len(requests)
    /\ \A k \in 1..Len(auth) :
          /\ auth[k] = credentials
          /\ NotBlank(auth[k].user)
          /\ NotBlank(auth[k].pass)

\* C18's case: new has refused a pair whose user is fine and whose pass
\* is whitespace only
C18_Witness ==
    /\ pc = "returned"
    /\ result = "InvalidCredentials"
    /\ NotBlank(credentials.user)
    /\ credentials.pass # <<>>
    /\ requests = <<>>

(***************************************************************************)
(* Properties of the command line program.                                 *)
(***************************************************************************)
\* C16: once the task spawned for ctrl-c has run, during a transport call
\* or a pacing wait of a send of several chunks or at any other point, the
\* process has exited with code 130; from then on no chunk is sent and
\* nothing is printed, and a run interrupted before its send returned has
\* not printed the success line.
C16_InterruptAborts ==
    [][/\ handler' = "done" =>
             /\ exited' = "130"
             /\ pc' # "returned" =>
                   \A j \in 1..Len(output') : output'[j] # "sent"
       /\ handler = "done" =>
             /\ requests' = requests
             /\ events' = events
             /\ output' = output
             /\ pc' = pc]_vars

\* C16's case: the task has run during the pacing wait after the first
\* of three chunks
C16_Witness ==
    /\ handler = "done"
    /\ pc = "sleep"
    /\ Len(formatted) = 3
    /\ Len(requests) = 1

\* C17: validate_message returns EmptyMessage for an empty or
\* whitespace-only message, InvalidMessage for a message of more than
\* 5000 grapheme clusters and Ok for every other message: a message of at
\* most 5000 grapheme clusters is accepted whatever its length in bytes.
C17_CeilingInGraphemes ==
    pc = "validated" =>
        result =
            IF \A i \in 1..Len(Text(text)) : IsWhitespace(Text(text)[i])
            THEN "EmptyMessage"
            ELSE IF Graphemes(Text(text)) > 5000 THEN "InvalidMessage"
            ELSE "Ok"

(***************************************************************************)
(* Properties of the loop of MessageChunker::chunk.                        *)
(***************************************************************************)
\* the number of grapheme clusters of s[from..] that begin at or before
\* char e
GraphemesUpTo(s, from, e) ==
    Cardinality({j \in from..e : IsGraphemeStart(s, from, j)})

\* index of the last char of the first limit grapheme clusters of
\* s[from..], which holds more than limit clusters
WindowEnd(s, from, limit) ==
    CHOOSE e \in (from + limit - 1)..(Len(s) - 1) :
        /\ IsGraphemeStart(s, from, e + 1)
        /\ GraphemesUpTo(s, from, e) = limit

\* index of the last char of the last grapheme cluster of the window
\* from..e that holds a whitespace char; the window holds one
LastWhitespaceClusterEnd(s, from, e) ==
    LET w == CHOOSE i \in from..e :
                /\ IsWhitespace(s[i])
                /\ \A j \in (i + 1)..e : ~IsWhitespace(s[j])
    IN  CHOOSE b \in w..e :
            /\ b = e \/ IsGraphemeStart(s, from, b + 1)
            /\ \A j \in (w + 1)..b : ~IsGraphemeStart(s, from, j)

\* the split point the one-third rule gives for s[from..], lengths and
\* positions counted in grapheme clusters: index of the last char before it
SplitEndByRule(s, from) ==
    LET e == WindowEnd(s, from, 991)
    IN  IF \A i \in from..e : ~IsWhitespace(s[i]) THEN e
        ELSE LET b == LastWhitespaceClusterEnd(s, from, e)
             IN  IF 3 * GraphemesUpTo(s, from, b) > 991 THEN b ELSE e

\* C19: in an iteration where the remaining text holds more than 991
\* grapheme clusters, the text is split just after the last cluster with
\* whitespace among the first 991 clusters when that position lies beyond
\* one third of the 991 clusters scanned, and after the 991st cluster in
\* every other case; the chunk pushed is the text before the split point.
C19_SplitPoint ==
    [][(/\ pc = "loop"
        /\ current_pos <= Len(Message)
        /\ GraphemeCount(Message, current_pos) > 991)
          => Text(chunks'[Len(chunks')]) =
                Trim(SubSeq(Message, current_pos,
                            SplitEndByRule(Message, current_pos)))]_vars

\* C20: chunk ends on every input: an iteration of its loop either pushes
\* the last chunk and leaves the loop, or pushes a chunk and moves
\* current_pos forward past at least one whole grapheme cluster of the
\* remaining text, never past the end of the text; so there are at most as
\* many iterations as the text has chars.
C20_LoopProgress ==
    [][pc = "loop" =>
          \/ /\ pc' = "chunked"
             /\ \/ Len(chunks') = Len(chunks) + 1
                \/ current_pos > Len(Message) /\ chunks' = chunks
          \/ /\ pc' = "loop"
             /\ Len(chunks') = Len(chunks) + 1
             /\ Len(chunks') <= Len(Message)
             /\ current_pos' > current_pos
             /\ current_pos' <= Len(Message) + 1
             /\ \E i \in (current_pos + 1)..current_pos' :
                   \/ i = Len(Message) + 1
                   \/ IsGraphemeStart(Message, current_pos, i)]_vars

\* C20's case: two iterations have moved current_pos forward and text is
\* left for a third
C20_Witness ==
    /\ pc = "loop"
    /\ Len(chunks) = 2
    /\ current_pos <= Len(Message)

(***************************************************************************)
(* Properties of MessageChunker::chunk on padded, split and unbroken       *)
(* texts.                                                                  *)
(***************************************************************************)
\* C21: a text that is not blank and holds at most MAX_MESSAGE_LENGTH
\* grapheme clusters once its outer whitespace is removed gives a single
\* chunk, the trimmed text, also when the text with its outer whitespace
\* holds more clusters than that.
C21_TrimmedLengthOneChunk ==
    (/\ ChunkReturned
     /\ NotBlank(Message)
     /\ Graphemes(Trim(Message)) <= MAX_MESSAGE_LENGTH)
        => Chunks = <<Trim(Message)>>

\* the last grapheme cluster of s[from..] that ends with char e holds a
\* whitespace char
EndsWithWhitespaceCluster(s, from, e) ==
    LET b == CHOOSE j \in from..e :
                /\ IsGraphemeStart(s, from, j)
                /\ \A k \in (j + 1)..e : ~IsGraphemeStart(s, from, k)
    IN  \E i \in b..e : IsWhitespace(s[i])

\* the iteration that pushed chunk and moved current_pos from `from` to
\* `to` cut s after some char e, dropped the whitespace from there to
\* `to` and nothing else, and resumes at a char that is not whitespace
ResumesAfterSplit(s, from, to, chunk) ==
    /\ to > from
    /\ to = Len(s) + 1 \/ ~IsWhitespace(s[to])
    /\ \E e \in from..(to - 1) :
          /\ \A i \in (e + 1)..(to - 1) : IsWhitespace(s[i])
          /\ e = Len(s) \/ IsGraphemeStart(s, from, e + 1)
          /\ chunk = Trim(SubSeq(s, from, e))

\* a word, a run of clusters without whitespace, lies on both sides of
\* the point where the iteration from `from` to `to` cut s
CutsWord(s, from, to) ==
    /\ to <= Len(s)
    /\ ~EndsWithWhitespaceCluster(s, from, to - 1)

\* C22: an iteration that does not end the loop pushes the text before a
\* split point and resumes at the first char after the split point that is
\* not whitespace, or at the end of the text: the whitespace between the
\* two is in no chunk, the next chunk starts with the char at which the
\* scan resumed, and a word (a run of clusters without whitespace) is cut
\* in two only by a split after the last cluster of the scan window, never
\* by a split at a word boundary.
C22_ResumeAfterWhitespace ==
    [][/\ (pc = "loop" /\ pc' = "loop") =>
             /\ ResumesAfterSplit(Message, current_pos, current_pos',
                                  Text(chunks'[Len(chunks')]))
             /\ CutsWord(Message, current_pos, current_pos')
                   => GraphemesUpTo(Message, current_pos, current_pos' - 1)
                         = MAX_MESSAGE_LENGTH - PREFIX_RESERVE_LENGTH
       /\ (pc = "loop" /\ current_pos <= Len(Message) /\ chunks # <<>>) =>
             /\ Len(chunks') = Len(chunks) + 1
             /\ chunks'[Len(chunks')] # <<>>
             /\ StandsAt(Message, current_pos, Text(chunks'[Len(chunks')]))
             /\ ~IsWhitespace(Text(chunks'[Len(chunks')])[1])]_vars

\* C22's case: a split at a word boundary has dropped a run of several
\* whitespace chars, and the chunk after it has been pushed
C22_Witness ==
    /\ pc = "loop"
    /\ Len(chunks) = 2
    /\ \E p \in 1..Len(Message) :
          /\ StandsAt(Message, p, Chunks[1])
          /\ IsWhitespace(Message[p + Len(Chunks[1])])
          /\ IsWhitespace(Message[p + Len(Chunks[1]) + 1])
          /\ Chunks[1] # <<>>

\* the text is an unbroken run of one of the clusters of RunGraphemes
IsUnbrokenRun(t) ==
    \E g \in RunGraphemes : \A i \in 1..Len(t) : t[i] = g

\* every text of ts but the last holds n grapheme clusters, the last
\* holds the rest of the total clusters
AllFullButLast(ts, n, total) ==
    /\ \A i \in 1..(Len(ts) - 1) : Graphemes(ts[i]) = n
    /\ Graphemes(ts[Len(ts)]) = total - n * (Len(ts) - 1)

\* the run of len clusters has been cut into ts as the claim says
CutByHardSplits(len, ts, fs) ==
    /\ Len(ts) = (len + 990) \div 991
    /\ Len(ts) > 1
    /\ AllFullButLast(ts, 991, len)
    /\ \A i \in 1..Len(fs) : Graphemes(fs[i]) <= 999

\* C23: an unbroken run of L equal clusters that are not whitespace, with
\* 999 < L <= 5000, is cut by hard splits only: chunk returns ceil(L / 991)
\* chunks, more than one, every chunk but the last of exactly 991
\* clusters, and every formatted chunk is at most 999 clusters long.
C23_UnbrokenRunHardSplits ==
    (/\ ChunkReturned
     /\ IsUnbrokenRun(Message)
     /\ Graphemes(Message) > 999
     /\ Graphemes(Message) <= 5000)
        => CutByHardSplits(Graphemes(Message), Chunks, Formatted)

\* C23's case: a run of 5000 clusters of four bytes each has been cut and
\* labelled
C23_Witness ==
    /\ pc = "formatted"
    /\ message = <<[c |-> "U+1F600", n |-> 5000]>>
    /\ Len(chunks) = 6
    /\ Len(formatted) = 6

\* C24: every chunk that chunk returns is non-empty, whatever whitespace
\* the text starts with or holds, so no formatted chunk is a label with
\* nothing after it.
C24_NoEmptyChunk ==
    ChunkReturned
        => /\ \A i \in 1..Len(chunks) : chunks[i] # <<>>
           /\ (pc = "formatted" /\ Len(chunks) > 1) =>
                 \A i \in 1..Len(formatted) :
                     Formatted[i] # FormatChunk(i - 1, Len(chunks), <<>>)

(***************************************************************************)
(* Properties of the path from the command line to the transport.          *)
(***************************************************************************)
\* index of the char of s at which the k-th text of ts stands, the texts
\* standing in s in order with whitespace between them
RECURSIVE StandsFrom(_, _, _)
StandsFrom(s, ts, k) ==
    IF k = 1 THEN FirstNonWhitespace(s, 1)
    ELSE FirstNonWhitespace(s, StandsFrom(s, ts, k - 1) + Len(ts[k - 1]))

\* the number of grapheme clusters of s that the iteration pushing the
\* k-th text of ts consumed: from where its window began to where the
\* next text stands
Consumed(s, ts, k) ==
    LET from == IF k = 1 THEN 1 ELSE StandsFrom(s, ts, k)
    IN  GraphemesUpTo(s, from, StandsFrom(s, ts, k + 1) - 1)

\* run has chunked the sanitized message
RunChunked == pc \in {"send_chunk", "await_response", "sleep"}

\* C25: of a message that validate_message accepted and sanitize rewrote,
\* every chunk but the last consumed more than one third of a window of
\* 991 grapheme clusters, so there are fewer than 100 chunks, every label
\* is at most 8 chars long, and every formatted chunk handed to the
\* transport is at most 999 grapheme clusters long.
C25_AcceptedMessageFewChunks ==
    RunChunked =>
        /\ \A k \in 1..(Len(chunks) - 1) : 3 * Consumed(Message, Chunks, k) > 991
        /\ Len(chunks) < 100
        /\ \A k \in 1..Len(chunks) : Len(Formatted[k]) - Len(Chunks[k]) <= 8
        /\ \A k \in 1..Len(requests) : Graphemes(Text(requests[k])) <= 999

\* C26: send(m) and send_sanitized(sanitize(m)) make the same requests and
\* return the same outcome.  For a text that is not blank both enter
\* send_sanitized in one and the same state, its argument the sanitized
\* text, which is not blank either, and send_sanitized returns
\* EmptyMessage for no such text; for a blank text both return
\* EmptyMessage and no request is made.
C26_SendIsSanitizeThenSendSanitized ==
    [][/\ (pc = "ready" /\ NotBlank(Text(text))) =>
             /\ pc' = "send_sanitized"
             /\ message' = Runs(Sanitize(Text(text)))
             /\ NotBlank(Text(message'))
             /\ UNCHANGED <<current_pos, chunks, formatted, clientVars>>
       /\ (pc = "ready" /\ ~NotBlank(Text(text))) =>
             /\ requests' = <<>>
             /\ \/ pc' = "returned" /\ result' = "EmptyMessage"
                \/ /\ pc' = "send_sanitized"
                   /\ ~NotBlank(Text(message'))
                   /\ result' = "none"
       /\ pc = "send_sanitized" =>
             /\ result' = "EmptyMessage" <=> ~NotBlank(Text(text))
             /\ ~NotBlank(Text(text)) => pc' = "returned" /\ requests' = <<>>
             /\ NotBlank(Text(text)) =>
                   formatted' = RunsOf(FormatChunks(Chunk(Sanitize(Text(text)))))]_vars

\* C26's case: a text with an emoji that sanitize replaces has been sent
\* as the sanitized text
C26_Witness ==
    /\ pc = "returned"
    /\ result = "Ok"
    /\ Text(text) = <<"U+1F600">>
    /\ Message = <<"[", "]">>
    /\ requests = <<message>>

====
